---- MODULE Spec2Model ----
(***************************************************************************)
(* The cache of the caching proxy (src/cache.go): the known-set and the    *)
(* busy directory behind one mutex, the per-identifier busy markers, the   *)
(* backing files, and has / get / put / release / checkCacheTTL as run by  *)
(* concurrent request handlers.                                            *)
(***************************************************************************)
EXTENDS Integers, Sequences, FiniteSets, TLC

\* ------------------------------------------------------------------ bounds
\* Calls of has, get and put made by all handlers together.
MaxCalls == 3
\* The clock runs from 0 to MaxTime.
MaxTime == 1

\* ------------------------------------------------------------ value spaces
\* Request-handling goroutines.
Procs == {1, 2, 3}
NoProc == 0
\* A nil error.
Nil == "nil"
\* A nil []byte: no payload (no byte is negative).
NilBytes == <<-1>>
\* No key and no identifier: the zero values of a call's locals.
NoKey == <<"", "">>
NoHash == <<"", "", "">>

\* A URL or cache key is <<scheme, rest>>; "%" is a rest that does not parse.
\* Cache keys, as the handler passes them to has and put: already normalised.
Keys == {<<"", "a">>, <<"", "b">>}
\* Requested URLs, as the handler passes them to get.
URLs == {<<"", "a">>, <<"http", "b">>, <<"http", "%">>}
\* Payloads: one that fits the in-memory tier and one that does not.
Contents == {<<7>>, <<8, 9>>}
\* What put is given to read from: the bytes, and whether the reader's dynamic
\* type implements io.WriterTo (bytes.Reader does, an HTTP response body does
\* not), which decides how io.Copy moves the bytes.
NoReader == [bytes |-> NilBytes, writerTo |-> FALSE]
Readers ==
  { [bytes |-> <<7>>, writerTo |-> FALSE],
    [bytes |-> <<8, 9>>, writerTo |-> FALSE],
    [bytes |-> <<8, 9>>, writerTo |-> TRUE] }

\* config.MaxCacheItemSize*1024*1024, in bytes: payloads of up to one byte go
\* to the in-memory tier.
MaxCacheItemBytes == 1

\* The configuration the cache is run under: the TTL rules (a Go map from the
\* rule's name to its regex and TTL; the regex is given by the set of
\* normalised keys it matches) and the default TTL. Both rules match "b" and
\* no rule matches "a".
Config ==
  [ CacheRules |-> [ n \in {"x", "y"} |->
                      IF n = "x" THEN [Regex |-> {"b"}, TTL |-> 1]
                                 ELSE [Regex |-> {"b"}, TTL |-> 2] ],
    DefaultCacheTTL |-> 0 ]
\* The order in which the rules were written in the configuration.
RuleOrder == <<"x", "y">>

VARIABLES
  knownValues,  \* Cache.knownValues: identifier -> KnownValues{content, loadedAt}
  busyValues,   \* Cache.busyValues: identifier -> busy marker (index in markers)
  mutex,        \* Cache.mutex: the goroutine holding it, or NoProc
  markers,      \* every *sync.Mutex has() created: its state and its history
  files,        \* the cache folder: identifier -> [content, mtime]
  now,          \* time.Now()
  pc,           \* where each goroutine is
  loc,          \* each goroutine's current (or last returned) call: arguments,
                \* locals and results
  permit,       \* the busy marker each handler holds as a fill permit (0: none)
  refreshed,    \* the identifiers whose file GetRemote has overwritten
  calls         \* calls made so far

vars == <<knownValues, busyValues, mutex, markers, files, now, pc, loc, permit,
          refreshed, calls>>

\* ---------------------------------------------------------------- helpers
\* m[k] = v in a Go map.
MapSet(m, k, v) == [x \in DOMAIN m \cup {k} |-> IF x = k THEN v ELSE m[x]]
\* delete(m, k) on a Go map.
MapDelete(m, k) == [x \in DOMAIN m \ {k} |-> m[x]]
\* len() of a []byte that may be nil.
GoLen(b) == IF b = NilBytes THEN 0 ELSE Len(b)

\* calcHash: the hex SHA-256 digest of the key, an injective tag of the string.
calcHash(data) == <<"sha256", data[1], data[2]>>

\* removeSchemeFromURL: the URL without its scheme, or an error.
removeSchemeFromURL(u) ==
  IF u[2] = "%" THEN [url |-> NoKey, err |-> "ParseError"]
                ELSE [url |-> <<"", u[2]>>, err |-> Nil]

\* A goroutine that has made no call yet.
Blank ==
  [ op |-> "none", key |-> NoKey, hashValue |-> NoHash,
    lock |-> 0, blocked |-> FALSE, found |-> FALSE, permit |-> 0,
    err |-> Nil,
    reader |-> NoReader, content |-> NilBytes, loadedAt |-> -1,
    body |-> NilBytes,
    ttl |-> -1, mtime |-> -1, checkedAt |-> -1, counters |-> <<>>,
    fetches |-> 0, remote |-> Nil, releases |-> 0 ]

\* The files found in the cache folder at start-up.
InitialFolders ==
  { <<>> } \cup
  { [ h \in {calcHash(<<"", "a">>)} |-> [content |-> <<7>>, mtime |-> 0] ] }

\* CreateCache: every file of the folder is known, with no content loaded.
Init ==
  /\ files \in InitialFolders
  /\ knownValues = [h \in DOMAIN files |->
                       [content |-> NilBytes, loadedAt |-> -1]]
  /\ busyValues = <<>>
  /\ mutex = NoProc
  /\ markers = <<>>
  /\ now = 0
  /\ pc = [p \in Procs |-> "idle"]
  /\ loc = [p \in Procs |-> Blank]
  /\ permit = [p \in Procs |-> 0]
  /\ refreshed = {}
  /\ calls = 0

\* Time passes.
Tick ==
  /\ now < MaxTime
  /\ now' = now + 1
  /\ UNCHANGED <<knownValues, busyValues, mutex, markers, files, pc, loc,
                 permit, calls, refreshed>>

\* Handlers are interchangeable: handler p makes its first call only after
\* handler p - 1 has made one.
Started(p) == IF p = 1 THEN TRUE ELSE loc[p - 1].op # "none"

\* -------------------------------------------------------------------- has
\* A handler without a permit calls has(key).
has_Call(p, key) ==
  /\ pc[p] = "idle"
  /\ permit[p] = 0
  /\ Started(p)
  /\ calls < MaxCalls
  /\ calls' = calls + 1
  /\ loc' = [loc EXCEPT ![p] =
               [Blank EXCEPT !.op = "has", !.key = key,
                             !.hashValue = calcHash(key)]]
  /\ pc' = [pc EXCEPT ![p] = "has_lock"]
  /\ UNCHANGED <<knownValues, busyValues, mutex, markers, files, now, permit, refreshed>>

\* The known-set lookup of has and, when the key is not known, the
\* registration of a new locked marker; has returns and its deferred
\* c.mutex.Unlock() runs.
has_Known(p) ==
  /\ IF loc[p].hashValue \in DOMAIN knownValues
       THEN /\ loc' = [loc EXCEPT ![p].found = TRUE]
            /\ UNCHANGED <<markers, busyValues, permit, refreshed>>
       ELSE /\ markers' = Append(markers,
                  [ key |-> loc[p].key, hashValue |-> loc[p].hashValue,
                    owner |-> p, locked |-> TRUE, held |-> TRUE,
                    fill |-> "none", bytes |-> NilBytes ])
            /\ busyValues' = MapSet(busyValues, loc[p].hashValue,
                                    Len(markers) + 1)
            /\ loc' = [loc EXCEPT ![p].permit = Len(markers) + 1]
            /\ permit' = [permit EXCEPT ![p] = Len(markers) + 1]
  /\ mutex' = NoProc
  /\ pc' = [pc EXCEPT ![p] = "idle"]

\* has without the wait: the busy directory is not consulted.
has_Busy_NoWait(p) ==
  /\ pc[p] = "has_lock"
  /\ mutex = NoProc
  /\ has_Known(p)
  /\ UNCHANGED <<knownValues, files, now, calls, refreshed>>

\* has that waits while any identifier is busy, on that identifier's marker.
has_Busy_AnyMarker(p) ==
  /\ pc[p] = "has_lock"
  /\ mutex = NoProc
  /\ IF DOMAIN busyValues # {}
       THEN /\ \E h \in DOMAIN busyValues :
                 loc' = [loc EXCEPT
                   ![p].lock = busyValues[h],
                   ![p].blocked = markers[busyValues[h]].held]
            /\ mutex' = NoProc
            /\ pc' = [pc EXCEPT ![p] = "has_wait"]
            /\ UNCHANGED <<markers, busyValues, permit, refreshed>>
       ELSE has_Known(p)
  /\ UNCHANGED <<knownValues, files, now, calls, refreshed>>

\* has that keeps the mutex while it waits on the marker.
has_Busy_KeepMutex(p) ==
  /\ pc[p] = "has_lock"
  /\ mutex = NoProc
  /\ IF loc[p].hashValue \in DOMAIN busyValues
       THEN /\ loc' = [loc EXCEPT
                  ![p].lock = busyValues[loc[p].hashValue],
                  ![p].blocked = markers[busyValues[loc[p].hashValue]].held]
            /\ mutex' = p
            /\ pc' = [pc EXCEPT ![p] = "has_wait"]
            /\ UNCHANGED <<markers, busyValues, permit, refreshed>>
       ELSE has_Known(p)
  /\ UNCHANGED <<knownValues, files, now, calls, refreshed>>

\* c.mutex.Lock() and the busy test: a busy key's marker is taken from the
\* directory and the mutex is unlocked for the wait (blocked records whether
\* the marker's holder still held it then); otherwise has goes on to the known-set in the
\* same critical section.
has_Busy(p) ==
  /\ pc[p] = "has_lock"
  /\ mutex = NoProc
  /\ IF loc[p].hashValue \in DOMAIN busyValues
       THEN /\ loc' = [loc EXCEPT
                  ![p].lock = busyValues[loc[p].hashValue],
                  ![p].blocked = markers[busyValues[loc[p].hashValue]].held]
            /\ mutex' = NoProc
            /\ pc' = [pc EXCEPT ![p] = "has_wait"]
            /\ UNCHANGED <<markers, busyValues, permit, refreshed>>
       ELSE has_Known(p)
  /\ UNCHANGED <<knownValues, files, now, calls, refreshed>>

\* lock.Lock(): blocks while the marker is locked.
has_WaitLock(p) ==
  /\ pc[p] = "has_wait"
  /\ ~markers[loc[p].lock].locked
  /\ markers' = [markers EXCEPT ![loc[p].lock].locked = TRUE]
  /\ pc' = [pc EXCEPT ![p] = "has_woken"]
  /\ UNCHANGED <<knownValues, busyValues, mutex, files, now, loc, permit,
                 calls, refreshed>>

\* A waiter that keeps the marker locked after the wait.
has_WaitUnlock_Keep(p) ==
  /\ pc[p] = "has_woken"
  /\ pc' = [pc EXCEPT ![p] = "has_relock"]
  /\ UNCHANGED <<knownValues, busyValues, mutex, markers, files, now, loc,
                 permit, calls, refreshed>>

\* lock.Unlock()
has_WaitUnlock(p) ==
  /\ pc[p] = "has_woken"
  /\ markers' = [markers EXCEPT ![loc[p].lock].locked = FALSE]
  /\ pc' = [pc EXCEPT ![p] = "has_relock"]
  /\ UNCHANGED <<knownValues, busyValues, mutex, files, now, loc, permit,
                 calls, refreshed>>

\* c.mutex.Lock() after the wait, then the known-set.
has_Relock(p) ==
  /\ pc[p] = "has_relock"
  /\ mutex = NoProc
  /\ has_Known(p)
  /\ UNCHANGED <<knownValues, files, now, calls, refreshed>>

\* ---------------------------------------------------------------- handler
\* busy.Unlock(): the handler gives the permit up, after put has returned or
\* without calling put when the fetch from the origin failed.
Unlock(p) ==
  /\ pc[p] = "idle"
  /\ permit[p] # 0
  /\ markers' = [markers EXCEPT ![permit[p]].locked = FALSE,
                                ![permit[p]].held = FALSE]
  /\ permit' = [permit EXCEPT ![p] = 0]
  /\ UNCHANGED <<knownValues, busyValues, mutex, files, now, pc, loc, calls, refreshed>>

\* -------------------------------------------------------------------- put
\* The permit holder calls put(key, content, contentLength) once, with the key
\* it called has with and the length of the payload; the size decides the
\* branch.
put_Call(p, r) ==
  /\ pc[p] = "idle"
  /\ permit[p] # 0
  /\ markers[permit[p]].fill = "none"
  /\ calls < MaxCalls
  /\ calls' = calls + 1
  /\ markers' = [markers EXCEPT ![permit[p]].fill = "running",
                                ![permit[p]].bytes = r.bytes]
  /\ loc' = [loc EXCEPT ![p] =
               [Blank EXCEPT !.op = "put", !.key = markers[permit[p]].key,
                             !.hashValue = calcHash(markers[permit[p]].key),
                             !.reader = r]]
  /\ pc' = [pc EXCEPT ![p] =
              IF Len(r.bytes) <= MaxCacheItemBytes THEN "put_buffer"
                                                   ELSE "put_create"]
  /\ UNCHANGED <<knownValues, busyValues, mutex, files, now, permit, refreshed>>

\* buffer.Bytes() after io.Copy(buffer, *content): the bytes read; of an empty
\* payload a nil slice when the reader wrote nothing into the buffer
\* (io.WriterTo) and an empty one when the buffer read from the reader.
BufferBytes(r) == IF r.bytes = <<>> /\ r.writerTo THEN NilBytes ELSE r.bytes

\* Memory branch: io.Copy into the buffer. A read error returns before
\* release is deferred; otherwise release(hashValue, buffer.Bytes(),
\* time.Now()) is deferred with its arguments evaluated here.
put_Buffer(p) ==
  /\ pc[p] = "put_buffer"
  /\ \/ /\ loc' = [loc EXCEPT ![p].content = BufferBytes(loc[p].reader),
                              ![p].loadedAt = now]
        /\ pc' = [pc EXCEPT ![p] = "put_write"]
        /\ UNCHANGED markers
     \/ /\ loc' = [loc EXCEPT ![p].err = "ReadError"]
        /\ markers' = [markers EXCEPT ![permit[p]].fill = "ReadError"]
        /\ pc' = [pc EXCEPT ![p] = "idle"]
  /\ UNCHANGED <<knownValues, busyValues, mutex, files, now, permit, calls, refreshed>>

\* Memory branch: ioutil.WriteFile(c.folder+hashValue, buffer.Bytes(), 0644).
\* A failure leaves the file as it was or truncated.
put_WriteFile(p) ==
  /\ pc[p] = "put_write"
  /\ \/ /\ files' = MapSet(files, loc[p].hashValue,
                           [content |-> loc[p].reader.bytes, mtime |-> now])
        /\ UNCHANGED loc
     \/ /\ files' \in {files, MapSet(files, loc[p].hashValue,
                                     [content |-> <<>>, mtime |-> now])}
        /\ loc' = [loc EXCEPT ![p].err = "WriteError"]
  /\ pc' = [pc EXCEPT ![p] = "put_release"]
  /\ UNCHANGED <<knownValues, busyValues, mutex, markers, now, permit, calls, refreshed>>

\* Disk branch: release(hashValue, nil, time.Now()) is deferred, then
\* os.Create(c.folder + hashValue) truncates or creates the file.
put_Create(p) ==
  /\ pc[p] = "put_create"
  /\ \/ /\ files' = MapSet(files, loc[p].hashValue,
                           [content |-> <<>>, mtime |-> now])
        /\ loc' = [loc EXCEPT ![p].content = NilBytes, ![p].loadedAt = now]
        /\ pc' = [pc EXCEPT ![p] = "put_stream"]
     \/ /\ UNCHANGED files
        /\ loc' = [loc EXCEPT ![p].content = NilBytes, ![p].loadedAt = now,
                              ![p].err = "CreateError"]
        /\ pc' = [pc EXCEPT ![p] = "put_release"]
  /\ UNCHANGED <<knownValues, busyValues, mutex, markers, now, permit, calls, refreshed>>

\* What io.Copy(bufio.NewWriter(file), *content) has put in the file when put
\* returns: the writer is never flushed. A reader that is no io.WriterTo is
\* read by the file itself (bufio.Writer.ReadFrom hands an empty buffer's copy
\* to os.File.ReadFrom) and all bytes arrive; an io.WriterTo reader writes its
\* bytes, fewer than the writer's buffer holds, into that buffer, where they
\* stay.
Flushed(r) == IF r.writerTo THEN <<>> ELSE r.bytes

\* Disk branch: io.Copy(writer, *content).
put_Stream(p) ==
  /\ pc[p] = "put_stream"
  /\ \/ /\ files' = IF Flushed(loc[p].reader) = <<>> THEN files
                    ELSE MapSet(files, loc[p].hashValue,
                                [content |-> Flushed(loc[p].reader),
                                 mtime |-> now])
        /\ UNCHANGED loc
     \/ /\ UNCHANGED files
        /\ loc' = [loc EXCEPT ![p].err = "CopyError"]
  /\ pc' = [pc EXCEPT ![p] = "put_release"]
  /\ UNCHANGED <<knownValues, busyValues, mutex, markers, now, permit, calls, refreshed>>

\* release that unmarks the key without caching it.
release_NoInsert(p) ==
  /\ pc[p] = "put_release"
  /\ mutex = NoProc
  /\ busyValues' = MapDelete(busyValues, loc[p].hashValue)
  /\ mutex' = NoProc
  /\ loc' = [loc EXCEPT ![p].releases = @ + 1]
  /\ markers' = [markers EXCEPT ![permit[p]].fill =
                   IF loc[p].err = Nil THEN "ok" ELSE loc[p].err]
  /\ pc' = [pc EXCEPT ![p] = "idle"]
  /\ UNCHANGED <<knownValues, files, now, permit, calls, refreshed>>

\* release that caches the key and leaves its marker in the busy directory.
release_KeepMarker(p) ==
  /\ pc[p] = "put_release"
  /\ mutex = NoProc
  /\ knownValues' = MapSet(knownValues, loc[p].hashValue,
                           [content |-> loc[p].content,
                            loadedAt |-> loc[p].loadedAt])
  /\ mutex' = NoProc
  /\ loc' = [loc EXCEPT ![p].releases = @ + 1]
  /\ markers' = [markers EXCEPT ![permit[p]].fill =
                   IF loc[p].err = Nil THEN "ok" ELSE loc[p].err]
  /\ pc' = [pc EXCEPT ![p] = "idle"]
  /\ UNCHANGED <<busyValues, files, now, permit, calls, refreshed>>

\* release in two critical sections: the first deletes the marker from the
\* busy directory, the second inserts the known-set entry.
release_TwoSections(p) ==
  /\ pc[p] = "put_release"
  /\ mutex = NoProc
  /\ IF loc[p].hashValue \in DOMAIN busyValues
       THEN /\ busyValues' = MapDelete(busyValues, loc[p].hashValue)
            /\ UNCHANGED <<knownValues, loc, markers, pc>>
       ELSE /\ knownValues' = MapSet(knownValues, loc[p].hashValue,
                                     [content |-> loc[p].content,
                                      loadedAt |-> loc[p].loadedAt])
            /\ loc' = [loc EXCEPT ![p].releases = @ + 1]
            /\ markers' = [markers EXCEPT ![permit[p]].fill =
                             IF loc[p].err = Nil THEN "ok" ELSE loc[p].err]
            /\ pc' = [pc EXCEPT ![p] = "idle"]
            /\ UNCHANGED busyValues
  /\ mutex' = NoProc
  /\ UNCHANGED <<files, now, permit, calls, refreshed>>

\* The deferred release: c.mutex.Lock(); delete(c.busyValues, hashValue);
\* c.knownValues[hashValue] = KnownValues{content, loadedAt};
\* c.mutex.Unlock(). Then put returns.
release(p) ==
  /\ pc[p] = "put_release"
  /\ mutex = NoProc
  /\ busyValues' = MapDelete(busyValues, loc[p].hashValue)
  /\ knownValues' = MapSet(knownValues, loc[p].hashValue,
                           [content |-> loc[p].content,
                            loadedAt |-> loc[p].loadedAt])
  /\ mutex' = NoProc
  /\ loc' = [loc EXCEPT ![p].releases = @ + 1]
  /\ markers' = [markers EXCEPT ![permit[p]].fill =
                   IF loc[p].err = Nil THEN "ok" ELSE loc[p].err]
  /\ pc' = [pc EXCEPT ![p] = "idle"]
  /\ UNCHANGED <<files, now, permit, calls, refreshed>>

\* -------------------------------------------------------------------- get
\* get(requestedURL): removeSchemeFromURL and calcHash; a URL that does not
\* parse returns the error at once.
get_Call(p, url) ==
  /\ pc[p] = "idle"
  /\ Started(p)
  /\ calls < MaxCalls
  /\ calls' = calls + 1
  /\ LET cacheURL == removeSchemeFromURL(url) IN
       IF cacheURL.err # Nil
         THEN /\ loc' = [loc EXCEPT ![p] =
                  [Blank EXCEPT !.op = "get", !.key = url,
                                !.err = cacheURL.err]]
              /\ pc' = [pc EXCEPT ![p] = "idle"]
         ELSE /\ loc' = [loc EXCEPT ![p] =
                  [Blank EXCEPT !.op = "get", !.key = url,
                                !.hashValue = calcHash(cacheURL.url)]]
              /\ pc' = [pc EXCEPT ![p] = "get_lock"]
  /\ UNCHANGED <<knownValues, busyValues, mutex, markers, files, now, permit, refreshed>>

\* if !ok && len(content) > 0: the not-found test of get.
NotKnown(ok, content) == ~ok /\ GoLen(content) > 0

\* c.mutex.Lock(); KnownValue, ok := c.knownValues[hashValue]; content :=
\* KnownValue.content; c.mutex.Unlock(); then the not-found test. A missing key gives the zero
\* KnownValues, whose content is nil.
get_Lookup(p) ==
  /\ pc[p] = "get_lock"
  /\ mutex = NoProc
  /\ LET ok == loc[p].hashValue \in DOMAIN knownValues
         content == IF ok THEN knownValues[loc[p].hashValue].content
                    ELSE NilBytes
     IN IF NotKnown(ok, content)
          THEN /\ loc' = [loc EXCEPT ![p].found = ok, ![p].content = content,
                                     ![p].err = "NotFound"]
               /\ pc' = [pc EXCEPT ![p] = "idle"]
          ELSE /\ loc' = [loc EXCEPT ![p].found = ok, ![p].content = content]
               /\ pc' = [pc EXCEPT ![p] = "get_ttl"]
  /\ mutex' = NoProc
  /\ UNCHANGED <<knownValues, busyValues, markers, files, now, permit, calls, refreshed>>

\* The rules whose regex matches the cache key.
Matching(cacheKey) ==
  {n \in DOMAIN Config.CacheRules : cacheKey \in Config.CacheRules[n].Regex}

\* ttl after the loop `for name, cr := range config.CacheRules { if
\* r.MatchString(cacheURL) { ttl = cr.TTL; break } }`: the range key is the
\* rule's name, so CacheRules is a Go map, which is ranged over in an
\* unspecified order: the first match met is any of the matching rules.
RuleTTLs(cacheKey) ==
  IF Matching(cacheKey) = {} THEN {Config.DefaultCacheTTL}
  ELSE {Config.CacheRules[n].TTL : n \in Matching(cacheKey)}

\* Expiry that counts the last valid instant as expired.
Expired_Inclusive(t, mtime, ttl) == t >= mtime + ttl

\* time.Now().After(validUntil), validUntil := mtime.Add(ttl)
Expired(t, mtime, ttl) == t > mtime + ttl

\* checkCacheTTL up to the call of GetRemote: os.Stat, the TTL, the counter.
checkCacheTTL(p) ==
  /\ pc[p] = "get_ttl"
  /\ IF loc[p].hashValue \notin DOMAIN files
       THEN /\ loc' = [loc EXCEPT ![p].err = "StatError"]
            /\ pc' = [pc EXCEPT ![p] = "idle"]
       ELSE \E ttl \in RuleTTLs(loc[p].hashValue[3]) :
              LET mtime == files[loc[p].hashValue].mtime IN
              IF Expired(now, mtime, ttl)
                THEN /\ loc' = [loc EXCEPT ![p].ttl = ttl, ![p].mtime = mtime,
                                  ![p].checkedAt = now,
                                  ![p].counters = Append(@, "CACHE_TOO_OLD"),
                                  ![p].fetches = @ + 1]
                     /\ pc' = [pc EXCEPT ![p] = "get_remote"]
                ELSE /\ loc' = [loc EXCEPT ![p].ttl = ttl, ![p].mtime = mtime,
                                  ![p].checkedAt = now,
                                  ![p].counters = Append(@, "CACHE_OK")]
                     /\ pc' = [pc EXCEPT ![p] = "get_read"]
  /\ UNCHANGED <<knownValues, busyValues, mutex, markers, files, now, permit,
                 calls, refreshed>>

\* The cache folder after GetRemote(requestedURL): on success (c is what the
\* origin sent) the backing file is overwritten, on failure (c is NilBytes)
\* the folder is as it was.
GetRemote(h, c) ==
  IF c = NilBytes THEN files ELSE MapSet(files, h, [content |-> c, mtime |-> now])

\* The return of GetRemote with its error dropped: get goes on to the
\* response either way.
checkCacheTTL_Remote_Swallow(p, c) ==
  /\ pc[p] = "get_remote"
  /\ files' = GetRemote(loc[p].hashValue, c)
  /\ refreshed' = IF c = NilBytes THEN refreshed
                  ELSE refreshed \cup {loc[p].hashValue}
  /\ loc' = [loc EXCEPT ![p].remote =
                          IF c = NilBytes THEN "FetchError" ELSE "ok"]
  /\ pc' = [pc EXCEPT ![p] = "get_read"]
  /\ UNCHANGED <<knownValues, busyValues, mutex, markers, now, permit, calls>>

\* The return of GetRemote with a failed refresh dropping the entry from the
\* known-set.
checkCacheTTL_Remote_Evict(p, c) ==
  /\ pc[p] = "get_remote"
  /\ files' = GetRemote(loc[p].hashValue, c)
  /\ refreshed' = IF c = NilBytes THEN refreshed
                  ELSE refreshed \cup {loc[p].hashValue}
  /\ IF c = NilBytes
       THEN /\ loc' = [loc EXCEPT ![p].remote = "FetchError",
                                  ![p].err = "FetchError"]
            /\ knownValues' = MapDelete(knownValues, loc[p].hashValue)
            /\ pc' = [pc EXCEPT ![p] = "idle"]
       ELSE /\ loc' = [loc EXCEPT ![p].remote = "ok"]
            /\ UNCHANGED knownValues
            /\ pc' = [pc EXCEPT ![p] = "get_read"]
  /\ UNCHANGED <<busyValues, mutex, markers, now, permit, calls>>

\* The return of GetRemote in checkCacheTTL: `if err != nil { return err }`,
\* which get returns in turn (`if err != nil { return nil, err }`); without
\* an error get goes on to the response.
checkCacheTTL_Remote(p, c) ==
  /\ pc[p] = "get_remote"
  /\ files' = GetRemote(loc[p].hashValue, c)
  /\ refreshed' = IF c = NilBytes THEN refreshed
                  ELSE refreshed \cup {loc[p].hashValue}
  /\ IF c = NilBytes
       THEN /\ loc' = [loc EXCEPT ![p].remote = "FetchError",
                                  ![p].err = "FetchError"]
            /\ pc' = [pc EXCEPT ![p] = "idle"]
       ELSE /\ loc' = [loc EXCEPT ![p].remote = "ok"]
            /\ pc' = [pc EXCEPT ![p] = "get_read"]
  /\ UNCHANGED <<knownValues, busyValues, mutex, markers, now, permit, calls>>

\* A get that keeps the bytes it read from the file in the known-set entry.
get_Read_Load(p) ==
  /\ pc[p] = "get_read"
  /\ IF loc[p].content = NilBytes
       THEN IF loc[p].hashValue \in DOMAIN files
              THEN /\ loc' = [loc EXCEPT
                               ![p].body = files[loc[p].hashValue].content,
                               ![p].counters = Append(@, "CACHE_READ_FILE")]
                   /\ knownValues' = MapSet(knownValues, loc[p].hashValue,
                        [content |-> files[loc[p].hashValue].content,
                         loadedAt |-> now])
              ELSE /\ loc' = [loc EXCEPT ![p].err = "OpenError"]
                   /\ UNCHANGED knownValues
       ELSE /\ loc' = [loc EXCEPT ![p].body = loc[p].content,
                         ![p].counters = Append(@, "CACHE_READ_MEMORY")]
            /\ UNCHANGED knownValues
  /\ pc' = [pc EXCEPT ![p] = "idle"]
  /\ UNCHANGED <<busyValues, mutex, markers, files, now, permit,
                 calls, refreshed>>

\* The rest of get: with nil content the file is opened and is the response,
\* otherwise the response reads the content taken from the known-set.
get_Read(p) ==
  /\ pc[p] = "get_read"
  /\ IF loc[p].content = NilBytes
       THEN IF loc[p].hashValue \in DOMAIN files
              THEN loc' = [loc EXCEPT ![p].body = files[loc[p].hashValue].content,
                             ![p].counters = Append(@, "CACHE_READ_FILE")]
              ELSE loc' = [loc EXCEPT ![p].err = "OpenError"]
       ELSE loc' = [loc EXCEPT ![p].body = loc[p].content,
                      ![p].counters = Append(@, "CACHE_READ_MEMORY")]
  /\ pc' = [pc EXCEPT ![p] = "idle"]
  /\ UNCHANGED <<knownValues, busyValues, mutex, markers, files, now, permit,
                 calls, refreshed>>

\* ------------------------------------------------------------------- spec
Next ==
  \/ Tick
  \/ \E p \in Procs :
       \/ \E key \in Keys : has_Call(p, key)
       \/ has_Busy(p)
       \/ has_WaitLock(p)
       \/ has_WaitUnlock(p)
       \/ has_Relock(p)
       \/ Unlock(p)
       \/ \E r \in Readers : put_Call(p, r)
       \/ put_Buffer(p)
       \/ put_WriteFile(p)
       \/ put_Create(p)
       \/ put_Stream(p)
       \/ release(p)
       \/ \E url \in URLs : get_Call(p, url)
       \/ get_Lookup(p)
       \/ checkCacheTTL(p)
       \/ \E c \in Contents \cup {NilBytes} : checkCacheTTL_Remote(p, c)
       \/ get_Read(p)

Spec == Init /\ [][Next]_vars

\* A step of goroutine p inside a call, or the handler's unlock of the permit
\* it holds.
Step(p) ==
  \/ has_Busy(p) \/ has_WaitLock(p) \/ has_WaitUnlock(p) \/ has_Relock(p)
  \/ Unlock(p)
  \/ put_Buffer(p) \/ put_WriteFile(p) \/ put_Create(p) \/ put_Stream(p)
  \/ release(p)
  \/ get_Lookup(p) \/ checkCacheTTL(p)
  \/ (\E c \in Contents \cup {NilBytes} : checkCacheTTL_Remote(p, c))
  \/ get_Read(p)

\* The scheduling the waiters rely on: a goroutine that can run does run, a
\* permit holder that has returned to its handler unlocks its marker, and
\* lock.Lock() on a marker that is unlocked again and again is granted
\* (sync.Mutex hands the lock to a starving waiter).
LiveSpec ==
  /\ Spec
  /\ \A p \in Procs : WF_vars(Step(p))
  /\ \A p \in Procs : SF_vars(has_WaitLock(p))

\* ----------------------------------------------------------------- claims
\* The markers has() has created so far.
Markers == 1..Len(markers)
\* Handler p's last call was op and has returned.
Returned(p, op) == pc[p] = "idle" /\ loc[p].op = op
\* How often counter c was incremented in handler p's current check.
Count(p, c) ==
  Cardinality({i \in 1..Len(loc[p].counters) : loc[p].counters[i] = c})

\* C1: while the first permit granted for an identifier (the one granted when
\* the identifier was neither busy nor known) has not been given up, no other
\* permit has been granted for that identifier, and a has that returns "not
\* cached" always returns a permit.
C1_SingleFlight ==
  /\ \A m \in Markers :
       ( /\ markers[m].held
         /\ \A m0 \in 1..(m - 1) : markers[m0].hashValue # markers[m].hashValue )
       => \A m2 \in Markers :
            m2 # m => markers[m2].hashValue # markers[m].hashValue
  /\ \A p \in Procs :
       Returned(p, "has") => (loc[p].found <=> loc[p].permit = 0)

\* C1 witness: one caller holds the permit of an identifier while two other
\* callers of has wait on it.
C1_Witness ==
  \E p \in Procs : \E q, r \in Procs \ {p} :
    /\ q # r
    /\ permit[p] # 0 /\ markers[permit[p]].held
    /\ pc[q] = "has_wait" /\ loc[q].lock = permit[p]
    /\ pc[r] = "has_wait" /\ loc[r].lock = permit[p]

\* C2: a caller of has that waited on a marker whose holder completed a
\* successful put returns "already cached" and no permit.
C2_WaitersSeeKnown ==
  \A p \in Procs :
    ( /\ Returned(p, "has")
      /\ loc[p].lock # 0
      /\ markers[loc[p].lock].fill = "ok" )
    => (loc[p].found /\ loc[p].permit = 0 /\ permit[p] = 0)

\* C2 witness: a waiter has returned "already cached" after the holder's
\* successful put and unlock.
C2_Witness ==
  \E p \in Procs :
    /\ Returned(p, "has")
    /\ loc[p].lock # 0
    /\ loc[p].blocked
    /\ markers[loc[p].lock].fill = "ok"
    /\ ~markers[loc[p].lock].held
    /\ markers[loc[p].lock].owner # p
    /\ loc[p].found

\* C3: when a permit holder has failed without a known-set entry and has
\* unlocked its marker, at most one of the callers that were blocked on that
\* marker holds a new permit.
C3_FailedFillHandOver ==
  \A m \in Markers :
    ( ~markers[m].held /\ markers[m].fill \in {"none", "ReadError"} )
    => Cardinality({ p \in Procs :
                       /\ loc[p].op = "has"
                       /\ loc[p].lock = m
                       /\ loc[p].blocked
                       /\ loc[p].permit # 0
                       /\ permit[p] = loc[p].permit }) <= 1

\* C4: a caller of has that was blocked on a marker whose holder's put
\* returned an I/O error observes alreadyCached = false once it has unblocked.
C4_FailedPutNotCached ==
  \A p \in Procs :
    ( /\ Returned(p, "has")
      /\ loc[p].lock # 0
      /\ loc[p].blocked
      /\ markers[loc[p].lock].fill \in
           {"ReadError", "WriteError", "CreateError", "CopyError"} )
    => ~loc[p].found

\* C5: every return of put has run release exactly once and leaves no busy
\* marker for the identifier in the busy directory.
C5_PutAlwaysReleases ==
  \A p \in Procs :
    Returned(p, "put") =>
      (loc[p].releases = 1 /\ loc[p].hashValue \notin DOMAIN busyValues)

\* C6: a get whose identifier was not in the known-set has returned the
\* not-found error, with no freshness check, no stat and no fetch.
C6_UnknownIsNotFound ==
  \A p \in Procs :
    ( /\ loc[p].op = "get"
      /\ loc[p].hashValue # NoHash
      /\ pc[p] # "get_lock"
      /\ ~loc[p].found )
    => ( /\ pc[p] = "idle"
         /\ loc[p].err = "NotFound"
         /\ loc[p].checkedAt = -1
         /\ loc[p].fetches = 0 )

\* C7: a get of a fresh entry that follows the handler's own successful
\* put(k, b, len(b)), with no other write to the entry, returns the bytes b,
\* on the memory tier and on the disk-only tier.
C7_RoundTrip ==
  \A p \in Procs : \A m \in Markers :
    ( /\ Returned(p, "get")
      /\ loc[p].err = Nil
      /\ Count(p, "CACHE_OK") = 1
      /\ markers[m].owner = p
      /\ markers[m].fill = "ok"
      /\ markers[m].hashValue = loc[p].hashValue
      /\ loc[p].hashValue \notin refreshed
      /\ \A m2 \in Markers \ {m} :
           markers[m2].hashValue = markers[m].hashValue
             => markers[m2].fill = "none" )
    => loc[p].body = markers[m].bytes

\* C8: the TTL a freshness check uses is the TTL of the first rule, in the
\* order of the configuration, whose pattern matches the key, and the default
\* TTL when no rule matches.
C8_FirstMatchWins ==
  \A p \in Procs :
    loc[p].ttl # -1 =>
      LET key == loc[p].hashValue[3]
          hits == { i \in 1..Len(RuleOrder) :
                      key \in Config.CacheRules[RuleOrder[i]].Regex }
      IN loc[p].ttl =
           IF hits = {} THEN Config.DefaultCacheTTL
           ELSE Config.CacheRules[
                  RuleOrder[CHOOSE i \in hits : \A j \in hits : i <= j]].TTL

\* C9: a freshness check at time t of a file with modification time T under
\* TTL d has called GetRemote once and counted CACHE_TOO_OLD once (and
\* CACHE_OK never) when t > T + d, and has called GetRemote never and counted
\* CACHE_OK once (and CACHE_TOO_OLD never) when t <= T + d.
C9_FreshnessBoundary ==
  \A p \in Procs :
    loc[p].checkedAt # -1 =>
      LET t == loc[p].checkedAt
          T == loc[p].mtime
          d == loc[p].ttl
      IN /\ t > T + d =>
              /\ loc[p].fetches = 1
              /\ Count(p, "CACHE_TOO_OLD") = 1
              /\ Count(p, "CACHE_OK") = 0
         /\ t <= T + d =>
              /\ loc[p].fetches = 0
              /\ Count(p, "CACHE_OK") = 1
              /\ Count(p, "CACHE_TOO_OLD") = 0

\* C9 witness: one check ran exactly at T + d and counted CACHE_OK, another
\* ran after T + d and called GetRemote.
C9_Witness ==
  \E p, q \in Procs :
    /\ loc[p].checkedAt # -1
    /\ loc[p].checkedAt = loc[p].mtime + loc[p].ttl
    /\ Count(p, "CACHE_OK") = 1
    /\ loc[q].checkedAt > loc[q].mtime + loc[q].ttl
    /\ loc[q].mtime # -1
    /\ loc[q].fetches = 1

\* C10: the step in which GetRemote fails during the freshness check of an
\* expired entry ends get with that error and no response, and leaves the
\* cache folder and the known-set as they were.
C10_RefreshFailureKeepsEntry ==
  [][ \A p \in Procs :
        (pc[p] = "get_remote" /\ loc'[p].remote = "FetchError") =>
          /\ pc'[p] = "idle"
          /\ loc'[p].err = "FetchError"
          /\ loc'[p].body = NilBytes
          /\ files' = files
          /\ knownValues' = knownValues
    ]_vars

\* C10 witness: a get has returned the fetch error, and a later get of the
\* same entry has called GetRemote again.
C10_Witness ==
  \E p, q \in Procs :
    /\ p # q
    /\ Returned(p, "get") /\ loc[p].err = "FetchError"
    /\ loc[q].op = "get" /\ loc[q].hashValue = loc[p].hashValue
    /\ loc[q].checkedAt >= loc[p].checkedAt
    /\ loc[q].fetches = 1
    /\ pc[q] = "get_remote"

\* C11: whenever the mutex is free, every entry of the busy directory is one
\* marker, registered for that identifier, and no identifier is both in the
\* busy directory and in the known-set.
C11_BusyKnownExclusive ==
  mutex = NoProc =>
    /\ \A h \in DOMAIN busyValues :
         /\ busyValues[h] \in Markers
         /\ markers[busyValues[h]].hashValue = h
    /\ DOMAIN busyValues \cap DOMAIN knownValues = {}

\* C11 witness: release has moved one identifier from the busy directory to
\* the known-set while another identifier is in the busy directory.
C11_Witness ==
  \E m \in Markers : \E h \in DOMAIN busyValues :
    /\ markers[m].fill = "ok"
    /\ markers[m].hashValue \in DOMAIN knownValues
    /\ markers[m].hashValue \notin DOMAIN busyValues
    /\ h # markers[m].hashValue
\* C12: every identifier in the known-set has a backing file in the cache
\* folder; a put whose file create or file write failed has left no known-set
\* entry for a missing file.
C12_KnownImpliesOnDisk ==
  \A h \in DOMAIN knownValues : h \in DOMAIN files
\* C13: no two get calls have GetRemote in flight for the same identifier at
\* the same time.
C13_RefreshSingleFlight ==
  \A p, q \in Procs :
    ( /\ p # q
      /\ pc[p] = "get_remote"
      /\ pc[q] = "get_remote" )
    => loc[p].hashValue # loc[q].hashValue
\* C14: the step in which a get whose refresh succeeded builds its response
\* gives it the content the backing file has after the refresh, on the memory
\* tier and on the disk-only tier.
C14_RefreshedContentServed ==
  [][ \A p \in Procs :
        ( /\ pc[p] = "get_read"
          /\ loc[p].remote = "ok"
          /\ pc'[p] = "idle"
          /\ loc'[p].err = Nil )
        => loc'[p].body = files[loc[p].hashValue].content
    ]_vars
\* C15: under LiveSpec, where every permit holder eventually unlocks the
\* marker it was given, every caller of has that waits on a busy marker
\* eventually returns.
C15_WaitersReturn ==
  \A p \in Procs : (pc[p] = "has_wait") ~> (pc[p] = "idle")

\* C15 witness: two callers were blocked on the same marker; after its holder
\* unlocked it, one of them registered a new marker for the identifier in the
\* busy directory, and the other, still waiting on the replaced marker, has
\* returned as well.
C15_Witness ==
  \E p, q \in Procs :
    /\ p # q
    /\ Returned(p, "has") /\ loc[p].blocked
    /\ Returned(q, "has") /\ loc[q].blocked
    /\ loc[p].lock = loc[q].lock
    /\ loc[q].permit # 0
    /\ loc[p].permit > loc[q].permit
    /\ busyValues[loc[p].hashValue] # loc[p].lock
\* C16: a permit is handed out with its identifier in the busy directory, and
\* from one state in which the mutex is free to the next an identifier that is
\* busy or known stays busy or known: it leaves the busy directory only in
\* the critical section that makes it known.
C16_AtomicBusyToKnown ==
  [][ /\ \A p \in Procs :
           (permit'[p] # 0 /\ permit'[p] # permit[p]) =>
             /\ markers'[permit'[p]].hashValue \in DOMAIN busyValues'
             /\ busyValues'[markers'[permit'[p]].hashValue] = permit'[p]
      /\ (mutex = NoProc /\ mutex' = NoProc) =>
           (DOMAIN busyValues \cup DOMAIN knownValues)
             \subseteq (DOMAIN busyValues' \cup DOMAIN knownValues')
    ]_vars

\* C16 witness: release has completed for an identifier, which is known and
\* no longer busy, while another goroutine is about to take the mutex to look
\* that identifier up.
C16_Witness ==
  \E m \in Markers : \E q \in Procs :
    /\ markers[m].fill = "ok"
    /\ markers[m].owner # q
    /\ pc[q] \in {"has_lock", "has_relock", "get_lock"}
    /\ loc[q].hashValue = markers[m].hashValue
    /\ markers[m].hashValue \in DOMAIN knownValues
    /\ markers[m].hashValue \notin DOMAIN busyValues
\* Where a goroutine waits on a busy marker, does file I/O or is in GetRemote.
Blocking ==
  { "has_wait", "has_woken",
    "put_buffer", "put_write", "put_create", "put_stream",
    "get_ttl", "get_remote", "get_read" }

\* C17: no goroutine holds the mutex while it waits on a busy marker, does
\* file I/O or is in GetRemote.
C17_MutexNotHeldWhileBlocking ==
  \A p \in Procs : pc[p] \in Blocking => mutex # p

\* C17 witness: one goroutine waits on a marker that is locked while another
\* is in GetRemote or about to read the file in get, and the mutex is free.
C17_Witness ==
  \E p, q \in Procs :
    /\ pc[p] = "has_wait" /\ markers[loc[p].lock].locked
    /\ pc[q] \in {"get_remote", "get_read"}
    /\ mutex = NoProc
\* C18: a caller of has waits only on a marker registered for its own
\* identifier, and a goroutine inside has, put or get can take its next step
\* unless it waits in has on a locked marker of its own identifier: nothing
\* held for another identifier stops it.
C18_UnrelatedIndependent ==
  \A p \in Procs :
    /\ pc[p] \in {"has_wait", "has_woken"} =>
         markers[loc[p].lock].hashValue = loc[p].hashValue
    /\ pc[p] # "idle" =>
         \/ ENABLED Step(p)
         \/ /\ pc[p] = "has_wait"
            /\ markers[loc[p].lock].hashValue = loc[p].hashValue
            /\ markers[loc[p].lock].locked

\* C18 witness: has for one identifier has returned a permit without waiting,
\* although the permit of another identifier was outstanding during the whole
\* call and still is.
C18_Witness ==
  \E p \in Procs : \E m \in Markers :
    /\ Returned(p, "has")
    /\ loc[p].lock = 0
    /\ loc[p].permit > m
    /\ markers[m].held
    /\ markers[m].hashValue # loc[p].hashValue
    /\ markers[m].owner # p
\* C19: no step removes an identifier from the known-set, and a has that
\* reaches its known-set lookup for a known identifier returns "already
\* cached" with no permit and registers no marker.
C19_KnownSetOnlyGrows ==
  [][ /\ DOMAIN knownValues \subseteq DOMAIN knownValues'
      /\ \A p \in Procs :
           ( /\ loc[p].op = "has"
             /\ pc[p] # "idle"
             /\ pc'[p] = "idle"
             /\ loc[p].hashValue \in DOMAIN knownValues )
           => /\ loc'[p].found
              /\ loc'[p].permit = 0
              /\ permit'[p] = 0
              /\ markers' = markers
              /\ busyValues' = busyValues
    ]_vars

\* C19 witness: two callers of has have returned "already cached" for an
\* identifier whose refresh has failed in a get.
C19_Witness ==
  \E p, q, r \in Procs :
    /\ p # q
    /\ Returned(p, "has") /\ loc[p].found
    /\ Returned(q, "has") /\ loc[q].found
    /\ loc[p].hashValue = loc[q].hashValue
    /\ Returned(r, "get") /\ loc[r].err = "FetchError"
    /\ loc[r].hashValue = loc[p].hashValue
\* C20: every step of a get that has not called GetRemote (the call itself,
\* the lookup, the freshness check and the read) leaves the known-set with
\* every entry's in-memory content, and the busy directory with its markers,
\* as they were.
C20_GetReadOnly ==
  [][ \A p \in Procs :
        ( /\ loc'[p].op = "get"
          /\ loc'[p].fetches = 0
          /\ (pc'[p] # pc[p] \/ loc'[p] # loc[p]) )
        => /\ knownValues' = knownValues
           /\ busyValues' = busyValues
           /\ markers' = markers
           /\ permit' = permit
    ]_vars

\* C20 witness: a get without a refresh has answered from the file of a
\* disk-only entry, which still has no in-memory content.
C20_Witness ==
  \E p \in Procs :
    /\ Returned(p, "get")
    /\ loc[p].err = Nil
    /\ loc[p].fetches = 0
    /\ Count(p, "CACHE_READ_FILE") = 1
    /\ loc[p].body # NilBytes
    /\ loc[p].hashValue \in DOMAIN knownValues
    /\ knownValues[loc[p].hashValue].content = NilBytes
====
